---- MODULE Spec2Model ----
(***************************************************************************)
(* Model of the detection-and-capture loop of FaceRecognizer.run_camera    *)
(* (src/face_recognizer.py) with its collaborators MotionDetector,         *)
(* EmailSender and VideoSaver.                                             *)
(*                                                                         *)
(* One iteration of the while-loop is a tick.  A tick is split where the   *)
(* code calls a slow collaborator: Tick (lines 186-211 up to the call of   *)
(* handle_detected), SendEmail (the synchronous send_email call),          *)
(* SaveVideoClip (the synchronous save_video_clip call and the clearing    *)
(* that follows it) and WaitKey (lines 213-216).                           *)
(***************************************************************************)
EXTENDS Integers, Sequences, FiniteSets, TLC

\* ------------------------------------------------------------------ bounds
MaxNow == 301           \* the clock is not advanced past this second
MaxFrames == 2          \* frames ever stored in unknown_face_frames
MaxBurst == 6           \* frames ever stored in SpecBurst
MaxCalls == 3           \* calls of detect_motion in SpecGate
MaxBuffer == 6          \* longest list given to get_random_frames
MaxSampled == 7         \* largest num_frames given to get_random_frames

\* --------------------------------------------------------------- constants
RANDOM_FRAMES_TO_SEND == 5
RECORDING_DURATION_THRESHOLD == 120
CooldownMinutes == 5
MotionThreshold == 25
MaxVal == 255           \* value cv2.threshold gives a pixel above threshold
SecondsPerDay == 86400

NoTime == -1            \* None in last_*_detection_time
NoFrame == <<>>         \* None in previous_frame

People == {"a", "b"}    \* face encodings that can appear in a frame
\* A frame is a row of grey levels.  The loop is fed two uniform frames.
Pixels == {<<0, 0, 0>>, <<100, 100, 100>>}
\* Frames given to detect_motion in SpecGate: uniform rows around the
\* threshold and rows that differ in one pixel.
GateFrames == {<<0, 0, 0>>, <<25, 25, 25>>, <<26, 26, 26>>,
               <<0, 0, 50>>, <<0, 0, 52>>}
\* Clock readings for check_last_recognition_time in SpecCooldown
CooldownTimes == {0, 10, 299, 300, 301, 600, 86399, 86400, 86410, 86700,
                  86701, 172810}
TimeSteps == {0, 300, 301}  \* seconds elapsing between two ticks

VARIABLES
    pc,                             \* position of the loop
    now,                            \* datetime.datetime.now(), in seconds
    face_encodings,                 \* reference encodings loaded at start
    previous_frame,                 \* MotionDetector.previous_frame
    unknown_face_frames,            \* evidence buffer
    last_known_detection_time,
    last_unknown_detection_time,
    is_recording,
    count,
    nextId,                         \* serial number of the next stored frame
    motion_detected,                \* result of detect_motion in this tick
    match,                          \* result of check_match in this tick
    quit,                           \* 'q' was read by cv2.waitKey
    idleRun,                        \* history, kept by SpecIdle only:
                                    \* skipped ticks since the last
                                    \* classification of this episode
    fired,                          \* history: calls of handle_detected
    tickFired,                      \* history: calls of handle_detected
                                    \* made by the current tick
    notified,                       \* history: calls of send_email
    clips,                          \* history: calls of save_video_clip
    args,                           \* arguments of the function applied by
                                    \* SpecGate and SpecSampling
    result                          \* what that function returned

vars == <<pc, now, face_encodings, previous_frame, unknown_face_frames,
          last_known_detection_time, last_unknown_detection_time,
          is_recording, count, nextId, motion_detected, match, quit, idleRun,
          fired, tickFired, notified, clips, args, result>>

fnvars == <<args, result>>

\* ------------------------------------------------------- pure functions

\* cv2.GaussianBlur in one dimension: each pixel becomes the rounded
\* weighted mean of itself and its neighbours, the row mirrored at its ends.
Neighbour(row, i) ==
    IF Len(row) = 1 THEN row[1]
    ELSE IF i < 1 THEN row[2]
    ELSE IF i > Len(row) THEN row[Len(row) - 1]
    ELSE row[i]

GaussianBlur(row) ==
    [i \in 1..Len(row) |->
        (Neighbour(row, i - 1) + 2 * row[i] + Neighbour(row, i + 1) + 2)
            \div 4]

\* MotionDetector.initialize_frame: grayscale (the frame is a row of grey
\* levels already), then the blur.
initialize_frame(frame) == GaussianBlur(frame)

AbsDiff(a, b) == IF a >= b THEN a - b ELSE b - a

\* cv2.absdiff of two rows
absdiff(a, b) == [i \in 1..Len(a) |-> AbsDiff(a[i], b[i])]

\* cv2.threshold(..., THRESH_BINARY)
threshold(row, thresh) ==
    [i \in 1..Len(row) |-> IF row[i] > thresh THEN MaxVal ELSE 0]

\* np.sum
RECURSIVE Sum(_)
Sum(row) == IF row = <<>> THEN 0 ELSE row[1] + Sum(Tail(row))

\* variant: the reference advances only when motion was seen
detect_motion_sticky(prev, frame, raises) ==
    IF raises THEN <<FALSE, prev>>
    ELSE LET ref == IF prev = NoFrame THEN initialize_frame(frame) ELSE prev
             cur == initialize_frame(frame)
             moved == Sum(threshold(absdiff(ref, cur), MotionThreshold)) > 0
         IN  <<moved, IF moved \/ prev = NoFrame THEN cur ELSE prev>>

\* MotionDetector.detect_motion: <<result, new previous_frame>>.  raises
\* says that the processing of this frame throws; the except branch then
\* answers False and previous_frame keeps its value.
detect_motion(prev, frame, raises) ==
    IF raises THEN <<FALSE, prev>>
    ELSE LET ref == IF prev = NoFrame THEN initialize_frame(frame) ELSE prev
             cur == initialize_frame(frame)
             thresh == threshold(absdiff(ref, cur), MotionThreshold)
         IN  <<Sum(thresh) > 0, cur>>

\* FaceRecognizer.check_match: "None", "True" or "False"
check_match(refs, faces) ==
    IF Cardinality(refs) = 0 THEN "None"
    ELSE IF faces = {} THEN "None"
    ELSE IF \E f \in faces : f \in refs THEN "True"
    ELSE "False"

\* timedelta.seconds of (t - since): the days are not part of it
TimedeltaSeconds(t, since) == (t - since) % SecondsPerDay

\* variant: the window counts as passed at exactly minutes * 60 seconds
check_last_recognition_time_ge(t, lastKnown, minutes) ==
    \/ lastKnown = NoTime
    \/ TimedeltaSeconds(t, lastKnown) >= minutes * 60

\* FaceRecognizer.check_last_recognition_time
check_last_recognition_time(t, lastKnown, minutes) ==
    \/ lastKnown = NoTime
    \/ TimedeltaSeconds(t, lastKnown) > minutes * 60

\* strftime('%Y-%m-%d_%H-%M-%S'): day, hour, minute, second
strftime(t) ==
    <<t \div SecondsPerDay, (t % SecondsPerDay) \div 3600,
      (t % 3600) \div 60, t % 60>>

\* all rows of k positions of a sequence of length n
RECURSIVE Picks(_, _)
Picks(n, k) ==
    IF k = 0 THEN {<<>>}
    ELSE {Append(p, i) : p \in Picks(n, k - 1), i \in 1..n} 

\* those that take no position twice
RECURSIVE DistinctPicks(_, _)
DistinctPicks(n, k) ==
    IF k = 0 THEN {<<>>}
    ELSE UNION {{Append(p, i) : i \in (1..n) \ {p[j] : j \in 1..Len(p)}} :
                    p \in DistinctPicks(n, k - 1)}

\* variant: no sample is drawn, the whole list is returned
get_random_frames_all(frames, num_frames) == {frames}

\* variant: the sample may take a position more than once
get_random_frames_repl(frames, num_frames) ==
    IF num_frames > Len(frames) THEN {frames}
    ELSE {[i \in 1..num_frames |-> frames[p[i]]] :
              p \in Picks(Len(frames), num_frames)}

\* get_random_frames: the set of results random.sample can give
get_random_frames(frames, num_frames) ==
    IF num_frames > Len(frames) THEN {frames}
    ELSE {[i \in 1..num_frames |-> frames[p[i]]] :
              p \in DistinctPicks(Len(frames), num_frames)}

\* variant: a known face clears the buffer but not is_recording
classified_half(m, t, frame, frames, rec, known, unknown) ==
    IF m = "True"
    THEN [known |-> t, unknown |-> unknown, frames |-> <<>>, rec |-> rec]
    ELSE [known |-> known, unknown |-> t, frames |-> Append(frames, frame),
          rec |-> TRUE]

\* variant: a frame without classification (None) changes nothing
classified_skipnone(m, t, frame, frames, rec, known, unknown) ==
    IF m = "True"
    THEN [known |-> t, unknown |-> unknown, frames |-> <<>>, rec |-> FALSE]
    ELSE IF m = "None"
    THEN [known |-> known, unknown |-> unknown, frames |-> frames,
          rec |-> rec]
    ELSE [known |-> known, unknown |-> t, frames |-> Append(frames, frame),
          rec |-> TRUE]

\* variant: the timestamp is that of the first unknown frame of a recording
classified_first(m, t, frame, frames, rec, known, unknown) ==
    IF m = "True"
    THEN [known |-> t, unknown |-> unknown, frames |-> <<>>, rec |-> FALSE]
    ELSE [known |-> known, unknown |-> IF rec THEN unknown ELSE t,
          frames |-> Append(frames, frame), rec |-> TRUE]

\* variant: a known face leaves the recording as it is
classified_keep(m, t, frame, frames, rec, known, unknown) ==
    IF m = "True"
    THEN [known |-> t, unknown |-> unknown, frames |-> frames, rec |-> rec]
    ELSE [known |-> known, unknown |-> t, frames |-> Append(frames, frame),
          rec |-> TRUE]

\* Lines 197-204: what the recognition branch does with the result m of
\* check_match at time t; frame is the frame of this tick.
classified(m, t, frame, frames, rec, known, unknown) ==
    IF m = "True"
    THEN [known |-> t, unknown |-> unknown, frames |-> <<>>, rec |-> FALSE]
    ELSE [known |-> known, unknown |-> t, frames |-> Append(frames, frame),
          rec |-> TRUE]

\* variant: every skipped tick is counted, recording or not
counted_always(rec, c) == c + 1

\* Lines 206-207
counted(rec, c) == IF rec THEN c + 1 ELSE c

\* variant: the trigger is due one tick later
trigger_due_late(rec, c, frames) ==
    rec /\ c > RECORDING_DURATION_THRESHOLD + 1 /\ Len(frames) > 0

\* variant: the trigger is due at the threshold itself
trigger_due_ge(rec, c, frames) ==
    rec /\ c >= RECORDING_DURATION_THRESHOLD /\ Len(frames) > 0

\* Lines 209-210
trigger_due(rec, c, frames) ==
    rec /\ c > RECORDING_DURATION_THRESHOLD /\ Len(frames) > 0

\* variant: every quit flushes
flush_due_always(rec, frames) == TRUE

\* variant: the flush waits for the duration threshold as well
flush_due_idle(rec, frames) ==
    rec /\ Len(frames) > 0 /\ count > RECORDING_DURATION_THRESHOLD

\* Line 214
flush_due(rec, frames) == rec /\ Len(frames) > 0

\* ------------------------------------------------------------------ Init
Init ==
    /\ pc = "read"
    /\ now = 0
    /\ face_encodings \in {{}, {"a"}}
    /\ previous_frame = NoFrame
    /\ unknown_face_frames = <<>>
    /\ last_known_detection_time = NoTime
    /\ last_unknown_detection_time = NoTime
    /\ is_recording = FALSE
    /\ count = 0
    /\ nextId = 1
    /\ motion_detected = FALSE
    /\ match = "skipped"
    /\ quit = FALSE
    /\ idleRun = 0
    /\ fired = <<>>
    /\ tickFired = 0
    /\ notified = <<>>
    /\ clips = <<>>
    /\ args = <<>>
    /\ result = <<>>

\* --------------------------------------------------------------- actions

\* Entry of handle_detected (lines 162-163): the sample is drawn and
\* send_email is called with it; the loop is now inside send_email.
\* With last_unknown_detection_time None the strftime call raises and the
\* exception leaves run_camera before anything is sent.
HandleDetectedCall(kind, frames, stamp, n) ==
    /\ fired' = Append(fired, kind)
    /\ tickFired' = n + 1
    /\ IF stamp = NoTime
       THEN /\ pc' = "crashed"
            /\ UNCHANGED notified
       ELSE /\ \E images \in get_random_frames(frames,
                                                RANDOM_FRAMES_TO_SEND) :
                  notified' = Append(notified, [frames |-> images,
                                                time |-> strftime(stamp)])
            /\ pc' = "send_email"

\* video_capture.read() fails: sys.exit (line 188)
ReadFails ==
    /\ pc = "read"
    /\ pc' = "exit"
    /\ UNCHANGED <<now, face_encodings, previous_frame, unknown_face_frames,
                   last_known_detection_time, last_unknown_detection_time,
                   is_recording, count, nextId, motion_detected, match, quit,
                   idleRun, fired, tickFired, notified, clips>>
    /\ UNCHANGED fnvars

\* Lines 186-211: one frame is read, gated and classified or counted.
\* track says whether the history variable idleRun is kept, cap how many
\* frames may be stored in all.
Tick(pix, faces, dt, raises, track, cap) ==
    /\ pc = "read"
    /\ now + dt <= MaxNow
    /\ now' = now + dt
    /\ \E dm \in {detect_motion(previous_frame, pix, raises)} :
       /\ motion_detected' = dm[1]
       /\ previous_frame' = dm[2]
    /\ IF /\ motion_detected'
          /\ check_last_recognition_time(now', last_known_detection_time,
                                         CooldownMinutes)
       THEN LET m == check_match(face_encodings, faces)
                r == classified(m, now', nextId, unknown_face_frames,
                                is_recording, last_known_detection_time,
                                last_unknown_detection_time)
            IN
            /\ Len(r.frames) > Len(unknown_face_frames) => nextId <= cap
            /\ match' = m
            /\ unknown_face_frames' = r.frames
            /\ is_recording' = r.rec
            /\ last_known_detection_time' = r.known
            /\ last_unknown_detection_time' = r.unknown
            /\ nextId' = IF Len(r.frames) > Len(unknown_face_frames)
                         THEN nextId + 1 ELSE nextId
            /\ idleRun' = 0
            /\ tickFired' = 0
            /\ pc' = "waitkey"
            /\ UNCHANGED <<count, fired, notified>>
       ELSE /\ match' = "skipped"
            /\ count' = counted(is_recording, count)
            /\ idleRun' = IF track /\ is_recording THEN idleRun + 1
                                                      ELSE idleRun
            /\ IF trigger_due(is_recording, count', unknown_face_frames)
               THEN HandleDetectedCall("duration", unknown_face_frames,
                                       last_unknown_detection_time, 0)
               ELSE /\ pc' = "waitkey"
                    /\ tickFired' = 0
                    /\ UNCHANGED <<fired, notified>>
            /\ UNCHANGED <<unknown_face_frames, is_recording, nextId,
                           last_known_detection_time,
                           last_unknown_detection_time>>
    /\ UNCHANGED <<face_encodings, quit, clips>>
    /\ UNCHANGED fnvars

\* send_email returns (line 163), then line 164.
SendEmailReturns ==
    /\ pc = "send_email"
    /\ is_recording' = FALSE
    /\ pc' = "save_video"
    /\ UNCHANGED <<now, face_encodings, previous_frame, unknown_face_frames,
                   last_known_detection_time, last_unknown_detection_time,
                   count, nextId, motion_detected, match, quit, idleRun,
                   fired, tickFired, notified, clips>>
    /\ UNCHANGED fnvars

\* send_email raises (connection, login, encoding): nothing catches it, the
\* exception leaves handle_detected and run_camera.
SendEmailRaises ==
    /\ pc = "send_email"
    /\ pc' = "crashed"
    /\ UNCHANGED <<now, face_encodings, previous_frame, unknown_face_frames,
                   last_known_detection_time, last_unknown_detection_time,
                   is_recording, count, nextId, motion_detected, match, quit,
                   idleRun, fired, tickFired, notified, clips>>
    /\ UNCHANGED fnvars

\* variant: the buffer is not cleared after the clip was saved
SaveVideoClip_keep(ok) ==
    /\ pc = "save_video"
    /\ clips' = Append(clips, [frames |-> unknown_face_frames, ok |-> ok])
    /\ count' = 0
    /\ idleRun' = 0
    /\ pc' = IF quit THEN "done" ELSE "waitkey"
    /\ UNCHANGED <<now, face_encodings, previous_frame, unknown_face_frames,
                   last_known_detection_time, last_unknown_detection_time,
                   is_recording, nextId, motion_detected, match, quit, fired,
                   tickFired, notified>>
    /\ UNCHANGED fnvars

\* Lines 165-168: save_video_clip is handed the buffer and logs its own
\* errors (ok = FALSE); then the buffer is cleared and count reset.
SaveVideoClip(ok) ==
    /\ pc = "save_video"
    /\ clips' = Append(clips, [frames |-> unknown_face_frames, ok |-> ok])
    /\ unknown_face_frames' = <<>>
    /\ count' = 0
    /\ idleRun' = 0
    /\ pc' = IF quit THEN "done" ELSE "waitkey"
    /\ UNCHANGED <<now, face_encodings, previous_frame,
                   last_known_detection_time, last_unknown_detection_time,
                   is_recording, nextId, motion_detected, match, quit, fired,
                   tickFired, notified>>
    /\ UNCHANGED fnvars

\* Lines 213-216: cv2.waitKey(1) is polled, q = the key was 'q'.
WaitKey(q) ==
    /\ pc = "waitkey"
    /\ quit' = q
    /\ IF q
       THEN IF flush_due(is_recording, unknown_face_frames)
            THEN HandleDetectedCall("quit", unknown_face_frames,
                                    last_unknown_detection_time, tickFired)
            ELSE /\ pc' = "done"
                 /\ UNCHANGED <<fired, tickFired, notified>>
       ELSE /\ pc' = "read"
            /\ UNCHANGED <<fired, tickFired, notified>>
    /\ UNCHANGED <<now, face_encodings, previous_frame, unknown_face_frames,
                   last_known_detection_time, last_unknown_detection_time,
                   is_recording, count, nextId, motion_detected, match,
                   idleRun, clips>>
    /\ UNCHANGED fnvars

TickStep == \E pix \in Pixels, faces \in SUBSET People, dt \in TimeSteps,
                 raises \in BOOLEAN :
                Tick(pix, faces, dt, raises, FALSE, MaxFrames)
SaveStep == \E ok \in BOOLEAN : SaveVideoClip(ok)
KeyStep == \E q \in BOOLEAN : WaitKey(q)

Next ==
    \/ ReadFails
    \/ TickStep
    \/ SendEmailReturns
    \/ SendEmailRaises
    \/ SaveStep
    \/ KeyStep

Spec == Init /\ [][Next]_vars

\* The same loop with the idle run recorded; the clock stands still, so
\* that every frame falls into the same second.
TickIdleStep == \E pix \in Pixels, faces \in SUBSET People,
                     raises \in BOOLEAN :
                    Tick(pix, faces, 0, raises, TRUE, MaxFrames)

NextIdle ==
    \/ ReadFails
    \/ TickIdleStep
    \/ SendEmailReturns
    \/ SendEmailRaises
    \/ SaveStep
    \/ KeyStep

SpecIdle == Init /\ [][NextIdle]_vars

\* The same loop with room for more stored frames than
\* RANDOM_FRAMES_TO_SEND.  The clock stands still and the scene is busy
\* and then still: until MaxBurst frames were stored every frame after the
\* first differs from the one before, afterwards every frame equals the one
\* before and shows no face; no frame makes detect_motion raise.
BurstFrame(pix, faces, raises) ==
    /\ ~raises
    /\ IF nextId <= MaxBurst
       THEN \/ previous_frame = NoFrame
            \/ detect_motion(previous_frame, pix, FALSE)[1]
       ELSE /\ faces = {}
            /\ ~detect_motion(previous_frame, pix, FALSE)[1]

TickBurstStep == \E pix \in Pixels, faces \in SUBSET People,
                      raises \in BOOLEAN :
                     /\ BurstFrame(pix, faces, raises)
                     /\ Tick(pix, faces, 0, raises, FALSE, MaxBurst)

\* q is pressed only while no idle frame has been counted
KeyBurstStep == \E q \in BOOLEAN :
                    /\ q => count = 0
                    /\ WaitKey(q)

NextBurst ==
    \/ ReadFails
    \/ TickBurstStep
    \/ SendEmailReturns
    \/ SendEmailRaises
    \/ SaveStep
    \/ KeyBurstStep

SpecBurst == Init /\ [][NextBurst]_vars

\* ------------------------------------------- the functions on their own

\* MotionDetector on its own: detect_motion is called with one frame after
\* the other; args keeps the frames given and whether the call threw.
DetectMotionCall(frame, raises) ==
    /\ Len(args) < MaxCalls
    /\ \E dm \in {detect_motion(previous_frame, frame, raises)} :
          /\ motion_detected' = dm[1]
          /\ previous_frame' = dm[2]
    /\ args' = Append(args, [frame |-> frame, raised |-> raises])
    /\ UNCHANGED <<pc, now, face_encodings, unknown_face_frames,
                   last_known_detection_time, last_unknown_detection_time,
                   is_recording, count, nextId, match, quit, idleRun, fired,
                   tickFired, notified, clips, result>>

GateStep == \E frame \in GateFrames, raises \in BOOLEAN :
                DetectMotionCall(frame, raises)

SpecGate == Init /\ [][GateStep]_vars

\* get_random_frames on its own: a list of distinct frames and a number
InitSampling ==
    /\ pc = "call"
    /\ args \in {[frames |-> [i \in 1..k |-> 10 + i], num_frames |-> n] :
                    k \in 0..MaxBuffer, n \in 0..MaxSampled}
    /\ result = <<>>
    /\ now = 0
    /\ face_encodings = {}
    /\ previous_frame = NoFrame
    /\ unknown_face_frames = <<>>
    /\ last_known_detection_time = NoTime
    /\ last_unknown_detection_time = NoTime
    /\ is_recording = FALSE
    /\ count = 0
    /\ nextId = 1
    /\ motion_detected = FALSE
    /\ match = "skipped"
    /\ quit = FALSE
    /\ idleRun = 0
    /\ fired = <<>>
    /\ tickFired = 0
    /\ notified = <<>>
    /\ clips = <<>>

GetRandomFramesCall ==
    /\ pc = "call"
    /\ result' \in get_random_frames(args.frames, args.num_frames)
    /\ pc' = "returned"
    /\ UNCHANGED <<now, face_encodings, previous_frame, unknown_face_frames,
                   last_known_detection_time, last_unknown_detection_time,
                   is_recording, count, nextId, motion_detected, match, quit,
                   idleRun, fired, tickFired, notified, clips, args>>

SpecSampling == InitSampling /\ [][GetRandomFramesCall]_vars

\* check_last_recognition_time on its own: the clock reads now and the
\* last known face was seen at last_known_detection_time (or never).
InitCooldown ==
    /\ pc = "call"
    /\ now \in CooldownTimes
    /\ last_known_detection_time \in
           {NoTime} \cup {t \in CooldownTimes : t <= now}
    /\ result = FALSE
    /\ args = <<>>
    /\ face_encodings = {}
    /\ previous_frame = NoFrame
    /\ unknown_face_frames = <<>>
    /\ last_unknown_detection_time = NoTime
    /\ is_recording = FALSE
    /\ count = 0
    /\ nextId = 1
    /\ motion_detected = FALSE
    /\ match = "skipped"
    /\ quit = FALSE
    /\ idleRun = 0
    /\ fired = <<>>
    /\ tickFired = 0
    /\ notified = <<>>
    /\ clips = <<>>

CheckLastRecognitionTimeCall ==
    /\ pc = "call"
    /\ result' = check_last_recognition_time(now, last_known_detection_time,
                                              CooldownMinutes)
    /\ pc' = "returned"
    /\ UNCHANGED <<now, face_encodings, previous_frame, unknown_face_frames,
                   last_known_detection_time, last_unknown_detection_time,
                   is_recording, count, nextId, motion_detected, match, quit,
                   idleRun, fired, tickFired, notified, clips, args>>

SpecCooldown == InitCooldown /\ [][CheckLastRecognitionTimeCall]_vars

\* ---------------------------------------------------------------- claims

Recognised == pc = "read" /\ pc' = "waitkey" /\ match' # "skipped"
CooldownSeconds == CooldownMinutes * 60
Last(seq) == seq[Len(seq)]
FrameSet(seq) == {seq[i] : i \in 1..Len(seq)}

\* C1: after a Known classification at time T, check_match is called on a
\* later frame only once now - T exceeds the cooldown window of 5 minutes.
C1_CooldownGating ==
    [][Recognised =>
          \/ last_known_detection_time = NoTime
          \/ now' - last_known_detection_time > CooldownSeconds]_vars

\* a motion-positive frame exactly 300 s after a Known is not recognised
C1_Witness ==
    /\ pc = "waitkey"
    /\ motion_detected
    /\ match = "skipped"
    /\ last_known_detection_time # NoTime
    /\ now - last_known_detection_time = CooldownSeconds

\* C2: a recognition tick in which check_match finds no face (None) leaves
\* is_recording, the buffer, both timestamps and count as they were.
C2_NoFaceUnchanged ==
    [][(Recognised /\ match' = "None") =>
          UNCHANGED <<is_recording, unknown_face_frames,
                      last_unknown_detection_time, last_known_detection_time,
                      count>>]_vars

\* C3: count is 0 at the end of every tick that classified its frame as
\* Known or Unknown.
C3_ResetOnClassification ==
    (pc = "waitkey" /\ match \in {"True", "False"}) => count = 0

\* C4: the duration trigger fires only after more than 120 consecutive
\* skipped ticks since the last classification of the episode.
C4_TriggerNeedsFullIdleRun ==
    (pc = "send_email" /\ Last(fired) = "duration") =>
        idleRun > RECORDING_DURATION_THRESHOLD

\* C5: a Known result while recording with a non-empty buffer empties the
\* buffer, ends the recording, and neither that tick nor its key poll
\* calls handle_detected.
C5_KnownCancels ==
    [][/\ (/\ Recognised
           /\ match' = "True"
           /\ is_recording
           /\ Len(unknown_face_frames) > 0)
          => (/\ unknown_face_frames' = <<>>
              /\ ~is_recording'
              /\ fired' = fired)
       /\ (pc = "waitkey" /\ match = "True") => fired' = fired]_vars

\* a Known tick has just discarded the stored frame 1
C5_Witness ==
    /\ pc = "waitkey"
    /\ match = "True"
    /\ nextId > 1
    /\ unknown_face_frames = <<>>
    /\ fired = <<>>
    /\ count > 0

\* C6: a quit read while recording with a non-empty buffer calls
\* handle_detected once, whatever count is; without that it calls nothing;
\* no tick calls handle_detected twice; after the quit no frame is read.
C6_FlushOnExit ==
    /\ [][(pc = "waitkey" /\ quit') =>
             IF is_recording /\ Len(unknown_face_frames) >= 1
             THEN /\ fired' = Append(fired, "quit")
                  /\ pc' = "send_email"
             ELSE /\ fired' = fired
                  /\ pc' = "done"]_vars
    /\ [][quit => /\ pc' \in {"save_video", "done", "crashed"}
                  /\ fired' = fired
                  /\ UNCHANGED <<previous_frame, nextId, match, now>>]_vars
    /\ [](tickFired <= 1)
    /\ []((quit /\ pc = "done") =>
             (~is_recording /\ unknown_face_frames = <<>>))

\* the flush ran to the end although count never passed the threshold
C6_Witness ==
    /\ pc = "done"
    /\ quit
    /\ fired = <<"quit">>
    /\ Len(clips) = 1
    /\ Len(clips[1].frames) >= 1

\* C7: one Unknown frame and then only skipped ticks: nothing fires while
\* count <= 120, the trigger fires when count reaches 121, only once, and
\* send_email gets the one stored frame.
C7_EndToEnd ==
    (nextId = 2 /\ last_known_detection_time = NoTime /\ ~quit) =>
        /\ Len(fired) <= 1
        /\ fired = <<>> =>
              /\ is_recording
              /\ unknown_face_frames = <<1>>
              /\ count = idleRun
              /\ count <= RECORDING_DURATION_THRESHOLD
              /\ notified = <<>>
        /\ fired # <<>> =>
              /\ fired = <<"duration">>
              /\ notified =
                    <<[frames |-> <<1>>,
                       time |-> strftime(last_unknown_detection_time)]>>
        /\ pc = "send_email" =>
              /\ count = RECORDING_DURATION_THRESHOLD + 1
              /\ idleRun = RECORDING_DURATION_THRESHOLD + 1

\* the trigger has fired and skipped ticks go on after it
C7_Witness ==
    /\ nextId = 2
    /\ last_known_detection_time = NoTime
    /\ ~quit
    /\ fired = <<"duration">>
    /\ Len(clips) = 1
    /\ pc = "waitkey"
    /\ tickFired = 0
    /\ match = "skipped"

\* C8: while send_email or save_video_clip of a trigger is running, the
\* loop can read and tick the next frame.
C8_LoopNeverBlocks ==
    pc \in {"send_email", "save_video"} => ENABLED TickStep

\* C9: a failing send_email or save_video_clip does not stop the loop, and
\* the tick that fired ends with the recording state cleared.
C9_FailureOnlyLogged ==
    /\ pc # "crashed"
    /\ (tickFired > 0 /\ pc \in {"waitkey", "read", "done"}) =>
          (~is_recording /\ unknown_face_frames = <<>> /\ count = 0)

\* C10: when handle_detected has returned, is_recording is false, the
\* buffer is empty and count is 0 until the next tick starts, and no frame
\* is in the clips of two triggers.
C10_ResetAfterTrigger ==
    /\ (tickFired > 0 /\ pc \in {"waitkey", "read", "done"}) =>
          (~is_recording /\ unknown_face_frames = <<>> /\ count = 0)
    /\ \A i, j \in 1..Len(clips) :
          i # j => FrameSet(clips[i].frames) \cap FrameSet(clips[j].frames) = {}

\* two triggers have handed over their clips
C10_Witness ==
    /\ Len(clips) = 2
    /\ fired = <<"duration", "quit">>
    /\ pc = "done"

TickBoundary == pc \in {"read", "waitkey", "done", "exit"}

\* C11: between the ticks is_recording is false exactly when the buffer
\* is empty.
C11_RecordingIffBuffer ==
    TickBoundary => (is_recording <=> unknown_face_frames # <<>>)

\* a tick starts while two frames are being recorded
C11_Witness ==
    /\ pc = "read"
    /\ is_recording
    /\ Len(unknown_face_frames) = 2
    /\ count > 0

\* C14: handle_detected is never called with an empty buffer, by the
\* duration test or by the quit, and neither collaborator is handed an
\* empty list of frames.
C14_NoTriggerOnEmpty ==
    /\ [][fired' # fired => Len(unknown_face_frames) > 0]_vars
    /\ [](\A k \in 1..Len(notified) : notified[k].frames # <<>>)
    /\ [](\A k \in 1..Len(clips) : clips[k].frames # <<>>)

\* a quit after a cancelled recording: count is left over, the buffer is
\* empty and nothing was fired
C14_Witness ==
    /\ pc = "done"
    /\ quit
    /\ count > 0
    /\ unknown_face_frames = <<>>
    /\ fired = <<>>

\* C15: without reference encodings every recognised frame is handled as
\* Unknown (timestamp set, frame appended, recording on) and none is Known.
C15_EmptyReferenceSet ==
    /\ [][(face_encodings = {} /\ Recognised) =>
             /\ last_unknown_detection_time' = now'
             /\ is_recording'
             /\ unknown_face_frames' = Append(unknown_face_frames, nextId)]_vars
    /\ [](face_encodings = {} =>
             (match # "True" /\ last_known_detection_time = NoTime))

\* two frames were recorded without any reference encoding
C15_Witness ==
    /\ face_encodings = {}
    /\ pc = "waitkey"
    /\ match = "None"
    /\ is_recording
    /\ unknown_face_frames = <<1, 2>>

\* C17: no tick ends recording with count above the threshold and a
\* non-empty buffer: the trigger has fired in that tick.
C17_TriggerNeverMissed ==
    TickBoundary =>
        ~(/\ is_recording
          /\ count > RECORDING_DURATION_THRESHOLD
          /\ Len(unknown_face_frames) > 0)

\* a tick whose duration trigger has fired is at its key poll
C17_Witness ==
    /\ pc = "waitkey"
    /\ tickFired = 1
    /\ Last(fired) = "duration"
    /\ count = 0
    /\ ~is_recording

\* C18: count grows by one only in a skipped tick while recording; a
\* recognised tick and a tick that starts without recording leave it.
C18_CountOnlyWhenIdleRecording ==
    [][/\ count' = count + 1 =>
             (pc = "read" /\ match' = "skipped" /\ is_recording)
       /\ Recognised => count' = count
       /\ (pc = "read" /\ ~is_recording) => count' = count
       /\ (pc = "read" /\ pc' # "exit" /\ match' = "skipped"
               /\ is_recording) => count' = count + 1]_vars

\* two frames without motion were counted while recording
C18_Witness ==
    /\ pc = "waitkey"
    /\ match = "skipped"
    /\ ~motion_detected
    /\ is_recording
    /\ count = 2

\* C20: while recording last_unknown_detection_time is set; it is always
\* the time of the latest frame handled as Unknown, and every call of
\* handle_detected passes it to send_email.
C20_UnknownStampDefined ==
    /\ [](is_recording => last_unknown_detection_time # NoTime)
    /\ [][fired' # fired =>
             /\ last_unknown_detection_time # NoTime
             /\ Len(notified') = Len(notified) + 1
             /\ Last(notified').time =
                    strftime(last_unknown_detection_time)]_vars
    /\ [][(Recognised /\ match' # "True") =>
             last_unknown_detection_time' = now']_vars
    /\ [][last_unknown_detection_time' # last_unknown_detection_time =>
             (Recognised /\ match' # "True")]_vars

\* a trigger whose recording got its second frame later than its first
C20_Witness ==
    /\ pc = "send_email"
    /\ Len(unknown_face_frames) = 2
    /\ last_unknown_detection_time > 0
    /\ Last(notified).time = strftime(last_unknown_detection_time)

Min(a, b) == IF a <= b THEN a ELSE b

\* C13: get_random_frames(frames, n) returns min(n, len) frames, no
\* position of the list twice, and the whole list when n >= len.
C13_SamplingBound ==
    pc = "returned" =>
        LET frames == args.frames
            n == args.num_frames
        IN  /\ Len(result) = Min(n, Len(frames))
            /\ FrameSet(result) \subseteq FrameSet(frames)
            /\ \A i, j \in 1..Len(result) : i # j => result[i] # result[j]
            /\ n >= Len(frames) => FrameSet(result) = FrameSet(frames)

\* 5 frames were drawn from 6, not in the order of the list
C13_Witness ==
    /\ pc = "returned"
    /\ Len(args.frames) = 6
    /\ args.num_frames = 5
    /\ Len(result) = 5
    /\ result[1] = 16
    /\ result[2] = 11

\* C16: check_last_recognition_time returns true exactly when no known
\* face was ever seen or more than 5 minutes have passed since the last
\* one, also when a day or more has passed.
C16_CooldownExpired ==
    pc = "returned" =>
        (result <=> \/ last_known_detection_time = NoTime
                    \/ now - last_known_detection_time > CooldownSeconds)

NoCallRaised == \A i \in 1..Len(args) : ~args[i].raised
Processed(k) == initialize_frame(args[k].frame)
Differs(a, b) == \E j \in 1..Len(a) : AbsDiff(a[j], b[j]) > MotionThreshold

\* C19: when no call threw, the first call of detect_motion reports no
\* motion and call k >= 2 reports motion exactly when a pixel of the
\* processed frame k differs by more than 25 from the processed frame k-1.
C19_ReferenceIsPreviousFrame ==
    (Len(args) >= 1 /\ NoCallRaised) =>
        LET k == Len(args) IN
        /\ k = 1 => ~motion_detected
        /\ k >= 2 => (motion_detected <=>
                         Differs(Processed(k), Processed(k - 1)))

\* the second frame differed from the first without passing the
\* threshold, the third differs from the first by more than the threshold
\* but not from the second: no motion is reported
C19_Witness ==
    /\ Len(args) = 3
    /\ NoCallRaised
    /\ ~Differs(Processed(2), Processed(1))
    /\ Processed(2) # Processed(1)
    /\ Differs(Processed(3), Processed(1))
    /\ ~motion_detected

Ascending(seq) == \A i, j \in 1..Len(seq) : i < j => seq[i] < seq[j]

\* C12: a call of handle_detected gives send_email min(5, len) different
\* frames of the buffer and the formatted last_unknown_detection_time, and
\* gives save_video_clip the same, unchanged buffer, all frames in the
\* order they were stored; the frames sent are among the frames saved.
C12_PayloadsOfOneSnapshot ==
    /\ [][fired' # fired =>
             LET sent == Last(notified').frames IN
             /\ Len(sent) = Min(RANDOM_FRAMES_TO_SEND,
                                Len(unknown_face_frames))
             /\ FrameSet(sent) \subseteq FrameSet(unknown_face_frames)
             /\ \A i, j \in 1..Len(sent) : i # j => sent[i] # sent[j]
             /\ Last(notified').time =
                    strftime(last_unknown_detection_time)]_vars
    /\ [][pc = "send_email" => UNCHANGED unknown_face_frames]_vars
    /\ [][clips' # clips =>
             /\ clips' = Append(clips, Last(clips'))
             /\ Last(clips').frames = unknown_face_frames]_vars
    /\ [](\A k \in 1..Len(clips) :
             /\ k <= Len(notified)
             /\ Ascending(clips[k].frames)
             /\ FrameSet(notified[k].frames)
                    \subseteq FrameSet(clips[k].frames)
             /\ Len(notified[k].frames) =
                    Min(RANDOM_FRAMES_TO_SEND, Len(clips[k].frames)))

\* the duration trigger sent 5 of 6 stored frames, starting with the last
\* one, and all 6 were saved
C12_Witness ==
    /\ Len(clips) = 1
    /\ fired = <<"duration">>
    /\ clips[1].frames = <<1, 2, 3, 4, 5, 6>>
    /\ Len(notified[1].frames) = 5
    /\ notified[1].frames[1] = 6

====
